---- MODULE Spec2Model ----
(***************************************************************************)
(* A model of fastq_qui.py: the FastqReader statistics engine (record      *)
(* generator, the five queries and their per-accessor caches) and the      *)
(* FastqAnalyzerGUI threading around it (load_file, the four analyses,     *)
(* their worker threads and root.after callbacks).                         *)
(*                                                                         *)
(* Text is modelled as sequences of one-character strings.  A file is the  *)
(* sequence of its lines, each without its line terminator.  Quotients     *)
(* (Python's true division) are modelled as exact reduced fractions        *)
(* <<numerator, denominator>>; binary floating-point rounding is not       *)
(* modelled.                                                               *)
(***************************************************************************)
EXTENDS Integers, Sequences, FiniteSets, TLC

VARIABLES
    disk,          \* file name -> file content (sequence of lines)
    readers,       \* heap of FastqReader objects, indexed 1..Len(readers)
    ret,           \* the last query call on reader 1: what it returned
    first,         \* per query: what its first call on reader 1 returned
    calls,         \* number of query calls made so far on reader 1
    current_file,  \* FastqAnalyzerGUI.current_file
    analyzer,      \* FastqAnalyzerGUI.analyzer (a reader index, or None)
    workers,       \* the analysis threads started so far
    mainpc,        \* where the Tk main thread is inside load_file
    afterq,        \* callbacks scheduled with root.after(0, ...), in order
    shown,         \* what the statistics text widget shows
    plots,         \* what the plots frame shows
    loads          \* number of files loaded so far

vars == <<disk, readers, ret, first, calls,
          current_file, analyzer, workers, mainpc, afterq, shown, plots,
          loads>>

guiVars == <<current_file, analyzer, workers, mainpc, afterq, shown, plots, loads>>

(***************************************************************************)
(* Bounds of the model.                                                    *)
(***************************************************************************)
\* the longest file considered, in lines (8 = two complete records)
MaxLines == 8
\* the number of query calls made on one reader
MaxCalls == 3
\* the number of analyses started in the GUI
MaxWorkers == 2
\* the number of times a file is loaded in the GUI
MaxLoads == 2

(***************************************************************************)
(* Values.                                                                 *)
(***************************************************************************)
\* Python's None, and a value that is not None
None == <<>>

Some(v) == <<v>>

\* the outcome of a call: a returned value or a raised exception
Ok(v) == [kind |-> "ok", val |-> v]

Raised(e) == [kind |-> "error", val |-> e]

RECURSIVE GCD(_, _)
GCD(a, b) == IF b = 0 THEN a ELSE GCD(b, a % b)

Abs(n) == IF n < 0 THEN -n ELSE n

\* n / d for d > 0, as a reduced fraction
Frac(n, d) ==
    LET g == GCD(Abs(n), d)
    IN  IF n = 0 THEN <<0, 1>> ELSE <<n \div g, d \div g>>

\* the number 0 (Python's int 0 compares equal to 0.0)
Zero == <<0, 1>>

RECURSIVE SumSeq(_)
SumSeq(s) == IF s = <<>> THEN 0 ELSE Head(s) + SumSeq(Tail(s))

Max(a, b) == IF a > b THEN a ELSE b

(***************************************************************************)
(* Characters: ord(), str.upper(), str.strip().                            *)
(***************************************************************************)
ord(c) ==
    CASE c = "\n" -> 10
      [] c = " "  -> 32
      [] c = "!"  -> 33
      [] c = "#"  -> 35
      [] c = "+"  -> 43
      [] c = "@"  -> 64
      [] c = "A"  -> 65
      [] c = "C"  -> 67
      [] c = "G"  -> 71
      [] c = "N"  -> 78
      [] c = "T"  -> 84
      [] c = "c"  -> 99
      [] c = "g"  -> 103

upper(c) ==
    CASE c = "c" -> "C"
      [] c = "g" -> "G"
      [] OTHER   -> c

IsSpace(c) == c \in {" ", "\n"}

RECURSIVE lstrip(_)
lstrip(s) ==
    IF s # <<>> /\ IsSpace(Head(s)) THEN lstrip(Tail(s)) ELSE s

RECURSIVE rstrip(_)
rstrip(s) ==
    IF s # <<>> /\ IsSpace(s[Len(s)]) THEN rstrip(SubSeq(s, 1, Len(s) - 1)) ELSE s

strip(s) == rstrip(lstrip(s))

(***************************************************************************)
(* FastqReader._read_fastq_chunks.                                         *)
(***************************************************************************)
\* file.readline() at line number pos: the line with its terminator, or the
\* empty string at end of file
readline(content, pos) ==
    IF pos <= Len(content) THEN content[pos] \o <<"\n">> ELSE <<>>

\* the chunks the generator yields when reading starts at line number pos
RECURSIVE ReadFrom(_, _)
ReadFrom(content, pos) ==
    LET lines == [k \in 1..4 |-> strip(readline(content, pos + k - 1))]
    IN  IF lines[1] = <<>>
        THEN <<>>
        ELSE <<lines>> \o ReadFrom(content, pos + 4)

_read_fastq_chunks(content) == ReadFrom(content, 1)

(***************************************************************************)
(* The file system and open().                                             *)
(***************************************************************************)
\* open(filename, 'r'): the content, or the exception open() raises
open(filename) ==
    IF filename \in DOMAIN disk
    THEN Ok(disk[filename])
    ELSE Raised("FileNotFoundError")

(***************************************************************************)
(* The four traversals, each as the value its loop has accumulated when    *)
(* the generator is exhausted.                                             *)
(***************************************************************************)
\* calculate_statistics: count and total_length
StatisticsPass(content) ==
    LET chunks == _read_fastq_chunks(content)
    IN  [count        |-> Len(chunks),
         total_length |-> SumSeq([k \in 1..Len(chunks) |-> Len(chunks[k][2])])]

\* LengthPass with each length put at the front of the list
LengthPassPrepending(content) ==
    LET chunks == _read_fastq_chunks(content)
    IN  [k \in 1..Len(chunks) |-> Len(chunks[Len(chunks) + 1 - k][2])]

\* collect_length_data: the list lengths
LengthPass(content) ==
    LET chunks == _read_fastq_chunks(content)
    IN  [k \in 1..Len(chunks) |-> Len(chunks[k][2])]

\* the length of the longest line number field among the chunks
RECURSIVE Longest(_, _)
Longest(chunks, field) ==
    IF chunks = <<>>
    THEN 0
    ELSE Max(Len(Head(chunks)[field]), Longest(Tail(chunks), field))

\* the largest of a set of indices; max_position starts at 0
Largest(reached) ==
    IF reached = {} THEN 0 ELSE CHOOSE m \in reached : \A i \in reached : i <= m

\* collect_quality_data: max_position, the largest index enumerate() produced
\* over a quality line
QualityMaxPosition(chunks) ==
    Largest({i \in 0..Longest(chunks, 4) :
                \E k \in 1..Len(chunks) : i < Len(chunks[k][4])})

\* collect_quality_data: quality_sums[i] and quality_counts[i]
QualitySum(chunks, i) ==
    SumSeq([k \in 1..Len(chunks) |->
               IF i < Len(chunks[k][4]) THEN ord(chunks[k][4][i + 1]) - 33 ELSE 0])

QualityCount(chunks, i) ==
    SumSeq([k \in 1..Len(chunks) |-> IF i < Len(chunks[k][4]) THEN 1 ELSE 0])

\* collect_quality_data: (positions, avg_qualities), or ZeroDivisionError
QualityPass(content) ==
    LET chunks       == _read_fastq_chunks(content)
        max_position == QualityMaxPosition(chunks)
    IN  IF \E i \in 0..max_position : QualityCount(chunks, i) = 0
        THEN Raised("ZeroDivisionError")
        ELSE Ok([positions     |-> [j \in 1..(max_position + 1) |-> j],
                 avg_qualities |-> [j \in 1..(max_position + 1) |->
                                       Frac(QualitySum(chunks, j - 1),
                                            QualityCount(chunks, j - 1))]])

Bases == {"A", "C", "G", "T"}

\* collect_content_data: base_counts[base][i] and total_counts[i]
BaseCount(chunks, base, i) ==
    SumSeq([k \in 1..Len(chunks) |->
               IF i < Len(chunks[k][2]) /\ upper(chunks[k][2][i + 1]) = base
               THEN 1 ELSE 0])

TotalCount(chunks, i) ==
    SumSeq([k \in 1..Len(chunks) |->
               IF i < Len(chunks[k][2]) /\ upper(chunks[k][2][i + 1]) \in Bases
               THEN 1 ELSE 0])

\* collect_content_data: max_position, the largest index at which a base of
\* base_counts was seen
ContentMaxPosition(chunks) ==
    Largest({i \in 0..Longest(chunks, 2) : TotalCount(chunks, i) > 0})

\* collect_content_data: (positions, content_data)
ContentPass(content) ==
    LET chunks       == _read_fastq_chunks(content)
        max_position == ContentMaxPosition(chunks)
    IN  [positions    |-> [j \in 1..(max_position + 1) |-> j],
         content_data |-> [base \in Bases |->
                              [j \in 1..(max_position + 1) |->
                                  IF TotalCount(chunks, j - 1) > 0
                                  THEN Frac(BaseCount(chunks, base, j - 1) * 100,
                                            TotalCount(chunks, j - 1))
                                  ELSE Zero]]]

(***************************************************************************)
(* FastqReader objects.  passes and stores are bookkeeping, not fields of  *)
(* the class: per traversal kind, how many traversals of the file this     *)
(* object has started and how many ended by storing their result.          *)
(***************************************************************************)
Kinds == {"statistics", "quality", "length", "content"}

\* FastqReader.__init__
FastqReader(filename) ==
    [filename        |-> filename,
     _sequence_count |-> None,
     _total_length   |-> None,
     _quality_data   |-> None,
     _length_data    |-> None,
     _content_data   |-> None,
     passes          |-> [k \in Kinds |-> 0],
     stores          |-> [k \in Kinds |-> 0]]

Started(r, kind) == [r EXCEPT !.passes[kind] = @ + 1]

Stored(r, kind) == [r EXCEPT !.stores[kind] = @ + 1]

\* A method call as a whole: the object after it and the call's outcome.
Result(r, out) == [r |-> r, out |-> out]

\* calculate_statistics
calculate_statistics(r) ==
    LET f == open(r.filename)
        s == StatisticsPass(f.val)
    IN  IF f.kind = "error"
        THEN Result(Started(r, "statistics"), f)
        ELSE Result(Stored(Started([r EXCEPT !._sequence_count = Some(s.count),
                                             !._total_length = Some(s.total_length)],
                                   "statistics"), "statistics"),
                    Ok(<<s.count, s.total_length>>))

\* get_sequence_count
get_sequence_count(r) ==
    LET c  == IF r._sequence_count = None
              THEN calculate_statistics(r)
              ELSE Result(r, Ok(None))
    IN  IF c.out.kind = "error"
        THEN c
        ELSE Result(c.r, Ok(c.r._sequence_count[1]))

\* AverageOf without the test for an empty file
AverageOfUnguarded(r) ==
    IF r._sequence_count[1] = 0
    THEN Raised("ZeroDivisionError")
    ELSE Ok(Frac(r._total_length[1], r._sequence_count[1]))

\* the division at the end of get_average_length
AverageOf(r) ==
    IF r._sequence_count[1] = 0
    THEN Ok(Zero)
    ELSE IF r._total_length = None
         THEN Raised("TypeError")
         ELSE Ok(Frac(r._total_length[1], r._sequence_count[1]))

\* get_average_length
get_average_length(r) ==
    LET c  == IF r._sequence_count = None
              THEN calculate_statistics(r)
              ELSE Result(r, Ok(None))
    IN  IF c.out.kind = "error"
        THEN c
        ELSE Result(c.r, AverageOf(c.r))

\* collect_quality_data storing its positions before the averages are divided
collect_quality_data_storing_first(r) ==
    IF r._quality_data # None
    THEN Result(r, Ok(r._quality_data[1]))
    ELSE LET f == open(r.filename)
             q == QualityPass(f.val)
         IN  IF f.kind = "error"
             THEN Result(Started(r, "quality"), f)
             ELSE IF q.kind = "error"
                  THEN Result(Started([r EXCEPT !._quality_data =
                                           Some([positions     |-> <<1>>,
                                                 avg_qualities |-> <<>>])],
                                      "quality"), q)
                  ELSE Result(Stored(Started([r EXCEPT !._quality_data = Some(q.val)],
                                             "quality"), "quality"),
                              q)

\* collect_quality_data
collect_quality_data(r) ==
    IF r._quality_data # None
    THEN Result(r, Ok(r._quality_data[1]))
    ELSE LET f == open(r.filename)
             q == QualityPass(f.val)
         IN  IF f.kind = "error"
             THEN Result(Started(r, "quality"), f)
             ELSE IF q.kind = "error"
                  THEN Result(Started(r, "quality"), q)
                  ELSE Result(Stored(Started([r EXCEPT !._quality_data = Some(q.val)],
                                             "quality"), "quality"),
                              q)

\* collect_length_data without the test of its cache
collect_length_data_uncached(r) ==
    LET f == open(r.filename)
        l == LengthPass(f.val)
    IN  IF f.kind = "error"
        THEN Result(Started(r, "length"), f)
        ELSE Result(Stored(Started([r EXCEPT !._length_data = Some(l)],
                                   "length"), "length"),
                    Ok(l))

\* collect_length_data
collect_length_data(r) ==
    IF r._length_data # None
    THEN Result(r, Ok(r._length_data[1]))
    ELSE LET f == open(r.filename)
             l == LengthPass(f.val)
         IN  IF f.kind = "error"
             THEN Result(Started(r, "length"), f)
             ELSE Result(Stored(Started([r EXCEPT !._length_data = Some(l)],
                                        "length"), "length"),
                         Ok(l))

\* collect_content_data
collect_content_data(r) ==
    IF r._content_data # None
    THEN Result(r, Ok(r._content_data[1]))
    ELSE LET f == open(r.filename)
             c == ContentPass(f.val)
         IN  IF f.kind = "error"
             THEN Result(Started(r, "content"), f)
             ELSE Result(Stored(Started([r EXCEPT !._content_data = Some(c)],
                                        "content"), "content"),
                         Ok(c))

(***************************************************************************)
(* The files considered: up to MaxLines lines, the line at each place of   *)
(* a four-line group drawn from a small pool.  The pools hold a blank      *)
(* header (end of stream), an empty, a one-base and a two-base sequence,   *)
(* lower-case and ambiguous bases and trailing white space, and quality    *)
(* lines of length 0, 1 and 2 (so ragged and mismatched records occur).    *)
(***************************************************************************)
HeaderPool == {<<"@">>, <<" ">>}

SequencePool == {<<>>, <<"A">>, <<"A", "c">>, <<"N", "g", " ">>}

SeparatorPool == {<<"+">>}

QualityPool == {<<>>, <<"#">>, <<"!", "#">>}

PoolAt(n) ==
    CASE n % 4 = 1 -> HeaderPool
      [] n % 4 = 2 -> SequencePool
      [] n % 4 = 3 -> SeparatorPool
      [] n % 4 = 0 -> QualityPool

RECURSIVE FilesOfLen(_)
FilesOfLen(n) ==
    IF n = 0
    THEN {<<>>}
    ELSE {Append(f, l) : f \in FilesOfLen(n - 1), l \in PoolAt(n)}

Files == UNION {FilesOfLen(n) : n \in 0..MaxLines}

(***************************************************************************)
(* The reader on its own: one FastqReader over one file, queried from a    *)
(* single thread.  Each action is one whole call of a query.               *)
(***************************************************************************)
Queries == {"get_sequence_count", "get_average_length", "collect_quality_data",
            "collect_length_data", "collect_content_data"}

TotalPasses(r) == SumSeq([i \in 1..4 |->
                     r.passes[<<"statistics", "quality", "length", "content">>[i]]])

NoReturn == [op |-> "none", out |-> Ok(None), repeat |-> FALSE, npass |-> 0]

GuiIdle ==
    /\ current_file = None
    /\ analyzer = None
    /\ workers = <<>>
    /\ mainpc = "idle"
    /\ afterq = <<>>
    /\ shown = None
    /\ plots = None
    /\ loads = 0

Init ==
    /\ \E content \in Files : disk = [n \in {"f1"} |-> content]
    /\ readers = <<FastqReader("f1")>>
    /\ ret = NoReturn
    /\ first = [q \in Queries |-> None]
    /\ calls = 0
    /\ GuiIdle

\* the caller's side of a call of query op that went as c
Call(op, c) ==
    /\ calls < MaxCalls
    /\ calls' = calls + 1
    /\ readers' = [readers EXCEPT ![1] = c.r]
    /\ ret' = [op     |-> op,
               out    |-> c.out,
               repeat |-> first[op] # None,
               npass  |-> TotalPasses(c.r) - TotalPasses(readers[1])]
    /\ first' = IF first[op] = None THEN [first EXCEPT ![op] = Some(c.out)] ELSE first
    /\ UNCHANGED <<disk, guiVars>>

GetSequenceCount == Call("get_sequence_count", get_sequence_count(readers[1]))

GetAverageLength == Call("get_average_length", get_average_length(readers[1]))

CollectQualityData == Call("collect_quality_data", collect_quality_data(readers[1]))

CollectLengthData == Call("collect_length_data", collect_length_data(readers[1]))

CollectContentData == Call("collect_content_data", collect_content_data(readers[1]))

Next ==
    \/ GetSequenceCount
    \/ GetAverageLength
    \/ CollectQualityData
    \/ CollectLengthData
    \/ CollectContentData

Spec == Init /\ [][Next]_vars

(***************************************************************************)
(* Properties of the reader on its own (specification Spec).               *)
(***************************************************************************)
TheFile == disk["f1"]

TheReader == readers[1]

Returned(op) == ret.op = op

NothingCached(r) ==
    /\ r._sequence_count = None
    /\ r._total_length = None
    /\ r._quality_data = None
    /\ r._length_data = None
    /\ r._content_data = None

\* the file's line number n, stripped; empty when the file is shorter
Line(content, n) == IF n <= Len(content) THEN strip(content[n]) ELSE <<>>

\* the number of four-line groups the file has begun
Groups(content) == (Len(content) + 3) \div 4

\* The last group has a header but lacks its sequence, separator or quality
\* line, and every group before it has a header too.
Truncated(content) ==
    /\ Len(content) % 4 # 0
    /\ \A g \in 1..Groups(content) : Line(content, 4 * g - 3) # <<>>

\* C1: a file whose last four-line group has a non-empty header but lacks its
\* sequence, separator or quality line makes every query fail with an error,
\* and nothing computed from the earlier records is returned or cached.
C1_TruncatedGroupIsAnError ==
    (Truncated(TheFile) /\ ret.op # "none") =>
        /\ ret.out.kind = "error"
        /\ NothingCached(TheReader)

\* The file holds no record: it is empty or holds blank lines only.
ZeroRecords(content) == \A n \in 1..Len(content) : strip(content[n]) = <<>>

\* C2: on a file with zero records no query raises: get_sequence_count returns
\* 0, get_average_length returns 0, and collect_length_data,
\* collect_quality_data and collect_content_data return empty distributions.
C2_ZeroRecordsAreNoError ==
    (ZeroRecords(TheFile) /\ ret.op # "none") =>
        /\ ret.out.kind = "ok"
        /\ Returned("get_sequence_count") => ret.out.val = 0
        /\ Returned("get_average_length") => ret.out.val = Zero
        /\ Returned("collect_length_data") => ret.out.val = <<>>
        /\ Returned("collect_quality_data") =>
               /\ ret.out.val.positions = <<>>
               /\ ret.out.val.avg_qualities = <<>>
        /\ Returned("collect_content_data") =>
               /\ ret.out.val.positions = <<>>
               /\ \A base \in Bases : ret.out.val.content_data[base] = <<>>

\* C5: a second call of the same query on the same reader returns what the
\* first call returned and makes no further pass over the file.
C5_QueriesAreIdempotent ==
    ret.repeat =>
        /\ ret.out = first[ret.op][1]
        /\ ret.npass = 0

Cached(r, kind) ==
    CASE kind = "statistics" -> r._sequence_count # None
      [] kind = "quality"    -> r._quality_data # None
      [] kind = "length"     -> r._length_data # None
      [] kind = "content"    -> r._content_data # None

WellFormed(content) ==
    /\ Len(content) % 4 = 0
    /\ \A g \in 1..Groups(content) :
        /\ Line(content, 4 * g - 3) # <<>>
        /\ Head(Line(content, 4 * g - 3)) = "@"
        /\ \A i \in 1..Len(Line(content, 4 * g - 2)) :
               ~IsSpace(Line(content, 4 * g - 2)[i])
        /\ Line(content, 4 * g - 1) # <<>>
        /\ Head(Line(content, 4 * g - 1)) = "+"
        /\ Len(Line(content, 4 * g)) = Len(Line(content, 4 * g - 2))

\* C7: on a well-formed file with N records get_sequence_count returns N,
\* collect_length_data returns the N sequence lengths in file order, and the
\* sum of that list is the total_length that get_average_length divides.
C7_CountAndLengthsOfWellFormedFile ==
    WellFormed(TheFile) =>
        LET N       == Len(TheFile) \div 4
            lengths == [g \in 1..N |-> Len(Line(TheFile, 4 * g - 2))]
        IN  /\ Returned("get_sequence_count") => ret.out = Ok(N)
            /\ Returned("collect_length_data") => ret.out = Ok(lengths)
            /\ TheReader._sequence_count # None => TheReader._sequence_count = Some(N)
            /\ (TheReader._length_data # None /\ TheReader._total_length # None) =>
                   SumSeq(TheReader._length_data[1]) = TheReader._total_length[1]
            /\ Returned("get_average_length") =>
                   ret.out = IF N = 0 THEN Ok(Zero) ELSE Ok(Frac(SumSeq(lengths), N))

\* two records of different lengths, listed and counted
C7_Witness ==
    /\ WellFormed(TheFile)
    /\ Len(TheFile) = 8
    /\ Returned("collect_length_data")
    /\ ret.out.val[1] > ret.out.val[2]
    /\ TheReader._sequence_count = Some(2)
    /\ TheReader._total_length = Some(3)

\* C8: get_average_length returns total_length / sequence_count when
\* sequence_count > 0 and 0, without raising, when sequence_count is 0, whether
\* or not get_sequence_count was called first.
C8_AverageLength ==
    Returned("get_average_length") =>
        /\ TheReader._sequence_count # None
        /\ TheReader._total_length # None
        /\ TheReader._sequence_count[1] > 0 =>
               ret.out = Ok(Frac(TheReader._total_length[1],
                                 TheReader._sequence_count[1]))
        /\ TheReader._sequence_count[1] = 0 => ret.out = Ok(Zero)

\* the first query made on a file without records is get_average_length
C8_Witness ==
    /\ Returned("get_average_length")
    /\ calls = 1
    /\ TheReader._sequence_count = Some(0)
    /\ ret.out = Ok(Zero)

\* the records of the file, as the reader's generator delimits them
Records == _read_fastq_chunks(TheFile)

\* the records whose sequence line has a character at index i
Reaching(i) == {k \in 1..Len(Records) : i < Len(Records[k][2])}

\* C9: every position i of the result of collect_quality_data holds the sum of
\* ord(quality character at i) - 33 over the records whose sequence reaches
\* position i, divided by the number of those records.
C9_QualityAveragedOverReachingRecords ==
    (Returned("collect_quality_data") /\ ret.out.kind = "ok") =>
        \A j \in 1..Len(ret.out.val.positions) :
            /\ Reaching(j - 1) # {}
            /\ \A k \in Reaching(j - 1) : j - 1 < Len(Records[k][4])
            /\ ret.out.val.avg_qualities[j] =
                   Frac(SumSeq([k \in 1..Len(Records) |->
                                   IF k \in Reaching(j - 1)
                                   THEN ord(Records[k][4][j]) - 33
                                   ELSE 0]),
                        Cardinality(Reaching(j - 1)))

FracAdd(a, b) == Frac(a[1] * b[2] + b[1] * a[2], a[2] * b[2])

\* the records with base (upper-cased) at index i of their sequence
With(base, i) ==
    {k \in 1..Len(Records) : i < Len(Records[k][2]) /\ upper(Records[k][2][i + 1]) = base}

Recognized(i) == UNION {With(base, i) : base \in Bases}

\* some record has at index i a base outside A, C, G, T
AmbiguousAt(i) ==
    \E k \in 1..Len(Records) :
        i < Len(Records[k][2]) /\ upper(Records[k][2][i + 1]) \notin Bases

\* C10: at every position i of the result of collect_content_data the
\* percentages of A, C, G and T sum to at most 100, and to exactly 100 when no
\* base outside A, C, G, T occurs at i in any record; each percentage is
\* base_count / total_recognized_count * 100, or 0 when no recognized base was
\* seen at i.
C10_ContentPercentages ==
    (Returned("collect_content_data") /\ ret.out.kind = "ok") =>
        \A j \in 1..Len(ret.out.val.positions) :
            LET pct(base) == ret.out.val.content_data[base][j]
                sum == FracAdd(FracAdd(pct("A"), pct("C")), FracAdd(pct("G"), pct("T")))
            IN  /\ sum[1] <= 100 * sum[2]
                /\ ~AmbiguousAt(j - 1) => sum = <<100, 1>>
                /\ \A base \in Bases :
                       pct(base) = IF Recognized(j - 1) = {}
                                   THEN Zero
                                   ELSE Frac(Cardinality(With(base, j - 1)) * 100,
                                             Cardinality(Recognized(j - 1)))

\* some record of the file has a quality line and a sequence line of
\* different lengths
Mismatched(content) ==
    \E k \in 1..Len(_read_fastq_chunks(content)) :
        Len(_read_fastq_chunks(content)[k][4]) # Len(_read_fastq_chunks(content)[k][2])

\* C11: a record whose quality line has a different length from its sequence
\* line is a format error: a query whose pass reads such a record fails and
\* returns no statistics.
C11_LengthMismatchIsAnError ==
    (Mismatched(TheFile) /\ ret.op # "none" /\ ret.npass > 0) =>
        ret.out.kind = "error"

(***************************************************************************)
(* Loading (specification SpecLoad): the path may name no file.  The       *)
(* reader is constructed first, then queried from a single thread.         *)
(***************************************************************************)
\* the file system without the file
NoFile == [n \in {} |-> <<>>]

InitLoad ==
    /\ disk \in {NoFile} \cup {[n \in {"f1"} |-> content] : content \in Files}
    /\ readers = <<>>
    /\ ret = NoReturn
    /\ first = [q \in Queries |-> None]
    /\ calls = 0
    /\ GuiIdle

\* reader = FastqReader(filename): the fields are set, the file is not opened
NewFastqReader ==
    /\ readers = <<>>
    /\ readers' = <<FastqReader("f1")>>
    /\ ret' = [op |-> "__init__", out |-> Ok(None), repeat |-> FALSE, npass |-> 0]
    /\ UNCHANGED <<disk, first, calls, guiVars>>

NextLoad ==
    \/ NewFastqReader
    \/ readers # <<>> /\ GetSequenceCount
    \/ readers # <<>> /\ GetAverageLength
    \/ readers # <<>> /\ CollectQualityData
    \/ readers # <<>> /\ CollectLengthData
    \/ readers # <<>> /\ CollectContentData

SpecLoad == InitLoad /\ [][NextLoad]_vars

\* C12: a path that is missing fails at load time with an IO error: no reader
\* of a missing file is ever constructed, and no query is the first to report
\* that the file cannot be opened.
C12_MissingFileFailsAtLoad ==
    /\ readers # <<>> => readers[1].filename \in DOMAIN disk
    /\ ret.op \in Queries => ret.out # Raised("FileNotFoundError")

\* the cache fields of a reader
CacheOf(r) ==
    <<r._sequence_count, r._total_length, r._quality_data, r._length_data,
      r._content_data>>

\* The pass of query op cannot complete: the file cannot be opened, or the
\* query divides by the number of quality characters seen at position 0 and
\* no record has a quality character.
PassFails(op) ==
    \/ "f1" \notin DOMAIN disk
    \/ /\ op = "collect_quality_data"
       /\ \A k \in 1..Len(_read_fastq_chunks(disk["f1"])) :
              _read_fastq_chunks(disk["f1"])[k][4] = <<>>

\* C13: an error raised during the pass of a query reaches the caller of that
\* query, never a default value in its place, and a call that ends in an error
\* leaves every cache field of the reader as it was before the call.
C13_ErrorsPropagateAndStoreNothing ==
    [][calls' = calls + 1 =>
           /\ (ret'.npass > 0 /\ PassFails(ret'.op)) => ret'.out.kind = "error"
           /\ ret'.out.kind = "error" =>
                  /\ ret'.npass > 0 /\ PassFails(ret'.op)
                  /\ CacheOf(readers'[1]) = CacheOf(readers[1])]_vars

\* collect_quality_data scanned a file whose record has no quality character
\* and raised, after two other queries had filled their caches
C13_Witness ==
    /\ readers # <<>>
    /\ ret.op = "collect_quality_data"
    /\ ret.out = Raised("ZeroDivisionError")
    /\ ret.npass = 1
    /\ readers[1]._sequence_count = Some(1)
    /\ readers[1]._total_length = Some(2)
    /\ readers[1]._length_data = Some(<<2>>)
    /\ readers[1]._quality_data = None

(***************************************************************************)
(* FastqAnalyzerGUI.  The Tk main thread runs the button handlers and the  *)
(* root.after callbacks one at a time; each analysis runs its analyze()    *)
(* closure on a thread of its own.  A worker step is one access to state   *)
(* the threads share (self.current_file, self.analyzer, a reader's fields, *)
(* the after queue); the threads interleave between steps.                 *)
(***************************************************************************)
FileNames == {"f1", "f2"}

\* the files on disk while the GUI runs: one record in f1, two in f2
GuiDisk ==
    [n \in FileNames |->
        IF n = "f1"
        THEN << <<"@">>, <<"A">>, <<"+">>, <<"#">> >>
        ELSE << <<"@">>, <<"A", "c">>, <<"+">>, <<"!", "#">>,
                <<"@">>, <<"A">>, <<"+">>, <<"#">> >>]

\* the queries analyze() makes on self.analyzer, in order
QueriesOf(analysis) ==
    CASE analysis = "show_statistics" ->
             <<"get_sequence_count", "get_average_length">>
      [] analysis = "quality_analysis" ->
             <<"collect_quality_data", "collect_length_data">>
      [] analysis = "nucleotide_analysis" ->
             <<"collect_content_data">>
      [] analysis = "full_analysis" ->
             <<"get_sequence_count", "get_average_length", "collect_quality_data",
               "collect_length_data", "collect_content_data">>

\* analyze() begins with self.analyzer = FastqReader(self.current_file)
\* (otherwise with: if not self.analyzer: ...)
Constructs(analysis) == analysis \in {"show_statistics", "full_analysis"}

\* the callback analyze() schedules when all its queries have returned
DisplayOf(analysis) ==
    CASE analysis = "show_statistics"     -> "display_statistics"
      [] analysis = "quality_analysis"    -> "display_quality_plots"
      [] analysis = "nucleotide_analysis" -> "display_nucleotide_plot"
      [] analysis = "full_analysis"       -> "display_full_analysis"

\* the traversal a query runs when its cache is empty
KindOf(query) ==
    CASE query \in {"get_sequence_count", "get_average_length"} -> "statistics"
      [] query = "collect_quality_data" -> "quality"
      [] query = "collect_length_data"  -> "length"
      [] query = "collect_content_data" -> "content"

\* a query as one whole call
Query(query, r) ==
    CASE query = "get_sequence_count"   -> get_sequence_count(r)
      [] query = "get_average_length"   -> get_average_length(r)
      [] query = "collect_quality_data" -> collect_quality_data(r)
      [] query = "collect_length_data"  -> collect_length_data(r)
      [] query = "collect_content_data" -> collect_content_data(r)

\* a thread running analyze() of the given analysis, with its locals:
\* filename is the value read from self.current_file, self the reader whose
\* method the thread is in, count and avg_len the locals of analyze();
\* count_from (bookkeeping) is the file count was computed from
Thread(analysis) ==
    [analysis   |-> analysis,
     pc         |-> IF Constructs(analysis) THEN "read_current_file" ELSE "test_analyzer",
     todo       |-> QueriesOf(analysis),
     filename   |-> None,
     self       |-> 0,
     count      |-> None,
     avg_len    |-> None,
     count_from |-> None]

\* an entry of the after queue
Callback(cb, count, avg_len, count_from) ==
    [cb |-> cb, count |-> count, avg_len |-> avg_len, count_from |-> count_from]

InitGUI ==
    /\ disk = GuiDisk
    /\ readers = <<>>
    /\ ret = NoReturn
    /\ first = [q \in Queries |-> None]
    /\ calls = 0
    /\ GuiIdle

readerVars == <<disk, ret, first, calls>>

(* -------------------------- the main thread -------------------------- *)

\* load_file, lines 333-339: current_file is set, the results are cleared
LoadFile(filename) ==
    /\ mainpc = "idle"
    /\ loads < MaxLoads
    /\ loads' = loads + 1
    /\ current_file' = Some(filename)
    /\ shown' = None
    /\ plots' = None
    /\ mainpc' = "load_file"
    /\ UNCHANGED <<readerVars, readers, analyzer, workers, afterq>>

\* load_file, line 340: self.analyzer = None
LoadFileDropAnalyzer ==
    /\ mainpc = "load_file"
    /\ analyzer' = None
    /\ mainpc' = "idle"
    /\ UNCHANGED <<loads, readerVars, readers, current_file, workers, afterq, shown, plots>>

\* show_statistics, quality_analysis, nucleotide_analysis, full_analysis:
\* without a file an error box and nothing else; otherwise a thread is started
StartAnalysis(analysis) ==
    /\ mainpc = "idle"
    /\ Len(workers) < MaxWorkers
    /\ IF current_file = None
       THEN UNCHANGED workers
       ELSE workers' = Append(workers, Thread(analysis))
    /\ UNCHANGED <<loads, readerVars, readers, current_file, analyzer, mainpc, afterq,
                   shown, plots>>

show_statistics == StartAnalysis("show_statistics")

quality_analysis == StartAnalysis("quality_analysis")

nucleotide_analysis == StartAnalysis("nucleotide_analysis")

full_analysis == StartAnalysis("full_analysis")

\* the main loop takes the oldest callback of the after queue
Takes(cb) ==
    /\ mainpc = "idle"
    /\ afterq # <<>>
    /\ Head(afterq).cb = cb
    /\ afterq' = Tail(afterq)

\* the text display_statistics writes: the file name is current_file's
StatisticsText(c) ==
    Some([file       |-> current_file[1],
          count      |-> c.count[1],
          avg_len    |-> c.avg_len[1],
          count_from |-> c.count_from[1]])

display_statistics ==
    /\ Takes("display_statistics")
    /\ shown' = StatisticsText(Head(afterq))
    /\ UNCHANGED <<loads, readerVars, readers, current_file, analyzer, workers, mainpc, plots>>

\* the reader after the main thread has made the queries on it, stopping at
\* the first that raises (the handlers catch the exception)
RECURSIVE Plotted(_, _)
Plotted(r, queries) ==
    IF queries = <<>>
    THEN Result(r, Ok(None))
    ELSE LET c == Query(Head(queries), r)
         IN  IF c.out.kind = "error" THEN c ELSE Plotted(c.r, Tail(queries))

\* display_quality_plots and display_nucleotide_plot: clear_plots, return when
\* there is no analyzer, otherwise query it and draw
Plot(what, queries) ==
    IF analyzer = None
    THEN /\ plots' = None
         /\ UNCHANGED readers
    ELSE LET c == Plotted(readers[analyzer[1]], queries)
         IN  /\ readers' = [readers EXCEPT ![analyzer[1]] = c.r]
             /\ plots' = IF c.out.kind = "error"
                         THEN None
                         ELSE Some([what |-> what, from |-> c.r.filename])

display_quality_plots ==
    /\ Takes("display_quality_plots")
    /\ Plot("quality", <<"collect_quality_data", "collect_length_data">>)
    /\ UNCHANGED <<loads, readerVars, current_file, analyzer, workers, mainpc, shown>>

display_nucleotide_plot ==
    /\ Takes("display_nucleotide_plot")
    /\ Plot("content", <<"collect_content_data">>)
    /\ UNCHANGED <<loads, readerVars, current_file, analyzer, workers, mainpc, shown>>

display_full_analysis ==
    /\ Takes("display_full_analysis")
    /\ shown' = StatisticsText(Head(afterq))
    /\ Plot("quality", <<"collect_quality_data", "collect_length_data">>)
    /\ UNCHANGED <<loads, readerVars, current_file, analyzer, workers, mainpc>>

\* messagebox.showerror scheduled by an except clause.  (stop_processing, which
\* every analyze() schedules in its finally clause, only stops the progress bar
\* and sets the status text, neither of which is part of the state here, so
\* that callback is not queued.)
showerror ==
    /\ Takes("showerror")
    /\ UNCHANGED <<loads, readerVars, readers, current_file, analyzer, workers, mainpc,
                   shown, plots>>

(* ------------------------- the worker threads ------------------------- *)

Workers == 1..Len(workers)

At(w, pc) == w \in Workers /\ workers[w].pc = pc

Goto(w, pc) == workers' = [workers EXCEPT ![w].pc = pc]

\* quality_analysis and nucleotide_analysis: if not self.analyzer
TestAnalyzer(w) ==
    /\ At(w, "test_analyzer")
    /\ Goto(w, IF analyzer = None THEN "read_current_file" ELSE "call")
    /\ UNCHANGED <<loads, readerVars, readers, current_file, analyzer, mainpc, afterq,
                   shown, plots>>

\* the argument of FastqReader(self.current_file) is evaluated
ReadCurrentFile(w) ==
    /\ At(w, "read_current_file")
    /\ workers' = [workers EXCEPT ![w].filename = current_file,
                                  ![w].pc = "assign_analyzer"]
    /\ UNCHANGED <<loads, readerVars, readers, current_file, analyzer, mainpc, afterq,
                   shown, plots>>

\* self.analyzer = FastqReader(...): the new object is stored
AssignAnalyzer(w) ==
    /\ At(w, "assign_analyzer")
    /\ readers' = Append(readers, FastqReader(workers[w].filename[1]))
    /\ analyzer' = Some(Len(readers) + 1)
    /\ Goto(w, "call")
    /\ UNCHANGED <<loads, readerVars, current_file, mainpc, afterq, shown, plots>>

\* the worker after its query returned out: a value goes to the locals of
\* analyze() and the next query follows, an exception to the except clause
Returns(w, i, out) ==
    LET t     == workers[w]
        query == Head(t.todo)
    IN  IF out.kind = "error"
        THEN [t EXCEPT !.pc = "except", !.self = 0]
        ELSE [t EXCEPT !.pc = "call",
                       !.self = 0,
                       !.todo = Tail(t.todo),
                       !.count = IF query = "get_sequence_count"
                                 THEN Some(out.val) ELSE @,
                       !.count_from = IF query = "get_sequence_count"
                                      THEN Some(readers[i].filename) ELSE @,
                       !.avg_len = IF query = "get_average_length"
                                   THEN Some(out.val) ELSE @]

\* the thread of an analysis whose analyze() has returned; its locals are gone
Ended(analysis) ==
    [Thread(analysis) EXCEPT !.pc = "done", !.todo = <<>>]

\* all queries have returned: root.after(0, <display>), then the finally
\* clause, and the thread ends
ScheduleDisplay(w) ==
    /\ At(w, "call")
    /\ workers[w].todo = <<>>
    /\ afterq' = Append(afterq, Callback(DisplayOf(workers[w].analysis),
                                         workers[w].count, workers[w].avg_len,
                                         workers[w].count_from))
    /\ workers' = [workers EXCEPT ![w] = Ended(workers[w].analysis)]
    /\ UNCHANGED <<loads, readerVars, readers, current_file, analyzer, mainpc, shown, plots>>

\* self.analyzer.<query>() with self.analyzer None: AttributeError
CallOnNone(w) ==
    /\ At(w, "call")
    /\ workers[w].todo # <<>>
    /\ analyzer = None
    /\ Goto(w, "except")
    /\ UNCHANGED <<loads, readerVars, readers, current_file, analyzer, mainpc, afterq,
                   shown, plots>>

\* self.analyzer.<query>() finds its cache filled and returns from it
CallCached(w) ==
    /\ At(w, "call")
    /\ workers[w].todo # <<>>
    /\ analyzer # None
    /\ Cached(readers[analyzer[1]], KindOf(Head(workers[w].todo)))
    /\ workers' = [workers EXCEPT ![w] =
           Returns(w, analyzer[1],
                   Query(Head(workers[w].todo), readers[analyzer[1]]).out)]
    /\ UNCHANGED <<loads, readerVars, readers, current_file, analyzer, mainpc, afterq,
                   shown, plots>>

\* self.analyzer.<query>() finds its cache empty and starts a pass: the file is
\* opened and the loop over the generator entered
BeginPass(w) ==
    /\ At(w, "call")
    /\ workers[w].todo # <<>>
    /\ analyzer # None
    /\ ~Cached(readers[analyzer[1]], KindOf(Head(workers[w].todo)))
    /\ readers' = [readers EXCEPT ![analyzer[1]] =
                       Started(@, KindOf(Head(workers[w].todo)))]
    /\ workers' = [workers EXCEPT ![w].self = analyzer[1],
                                  ![w].pc = IF open(readers[analyzer[1]].filename).kind = "error"
                                            THEN "except" ELSE "pass"]
    /\ UNCHANGED <<loads, readerVars, current_file, analyzer, mainpc, afterq, shown, plots>>

\* the pass of calculate_statistics ends: self._sequence_count = count
StoreSequenceCount(w) ==
    /\ At(w, "pass")
    /\ KindOf(Head(workers[w].todo)) = "statistics"
    /\ LET i == workers[w].self
           s == StatisticsPass(disk[readers[i].filename])
       IN  readers' = [readers EXCEPT ![i]._sequence_count = Some(s.count)]
    /\ Goto(w, "store_total_length")
    /\ UNCHANGED <<loads, readerVars, current_file, analyzer, mainpc, afterq, shown, plots>>

\* self._total_length = total_length; calculate_statistics returns and
\* get_sequence_count or get_average_length finishes
StoreTotalLength(w) ==
    /\ At(w, "store_total_length")
    /\ LET i == workers[w].self
           s == StatisticsPass(disk[readers[i].filename])
           r == Stored([readers[i] EXCEPT !._total_length = Some(s.total_length)],
                       "statistics")
       IN  /\ readers' = [readers EXCEPT ![i] = r]
           /\ workers' = [workers EXCEPT ![w] =
                  Returns(w, i, IF Head(workers[w].todo) = "get_sequence_count"
                                THEN Ok(r._sequence_count[1])
                                ELSE AverageOf(r))]
    /\ UNCHANGED <<loads, readerVars, current_file, analyzer, mainpc, afterq, shown, plots>>

\* the reader's cache field of a collect_* pass assigned the pass's result
StoreCollected(r, kind, val) ==
    CASE kind = "quality" -> Stored([r EXCEPT !._quality_data = Some(val)], kind)
      [] kind = "length"  -> Stored([r EXCEPT !._length_data = Some(val)], kind)
      [] kind = "content" -> Stored([r EXCEPT !._content_data = Some(val)], kind)

\* what the loop and the lines after it of a collect_* method come to
CollectPass(kind, content) ==
    CASE kind = "quality" -> QualityPass(content)
      [] kind = "length"  -> Ok(LengthPass(content))
      [] kind = "content" -> Ok(ContentPass(content))

\* the pass of a collect_* method ends: the result is stored and returned, or
\* the division raises
EndCollect(w) ==
    /\ At(w, "pass")
    /\ KindOf(Head(workers[w].todo)) # "statistics"
    /\ LET i    == workers[w].self
           kind == KindOf(Head(workers[w].todo))
           out  == CollectPass(kind, disk[readers[i].filename])
       IN  /\ readers' = IF out.kind = "error"
                         THEN readers
                         ELSE [readers EXCEPT ![i] = StoreCollected(@, kind, out.val)]
           /\ workers' = [workers EXCEPT ![w] = Returns(w, i, out)]
    /\ UNCHANGED <<loads, readerVars, current_file, analyzer, mainpc, afterq, shown, plots>>

\* except Exception as e: root.after(0, <error box>), then the finally
\* clause, and the thread ends
Except(w) ==
    /\ At(w, "except")
    /\ afterq' = Append(afterq, Callback("showerror", None, None, None))
    /\ workers' = [workers EXCEPT ![w] = Ended(workers[w].analysis)]
    /\ UNCHANGED <<loads, readerVars, readers, current_file, analyzer, mainpc, shown, plots>>

NextGUI ==
    \/ \E filename \in FileNames : LoadFile(filename)
    \/ LoadFileDropAnalyzer
    \/ show_statistics
    \/ quality_analysis
    \/ nucleotide_analysis
    \/ full_analysis
    \/ display_statistics
    \/ display_quality_plots
    \/ display_nucleotide_plot
    \/ display_full_analysis
    \/ showerror
    \/ \E w \in Workers : TestAnalyzer(w)
    \/ \E w \in Workers : ReadCurrentFile(w)
    \/ \E w \in Workers : AssignAnalyzer(w)
    \/ \E w \in Workers : ScheduleDisplay(w)
    \/ \E w \in Workers : CallOnNone(w)
    \/ \E w \in Workers : CallCached(w)
    \/ \E w \in Workers : BeginPass(w)
    \/ \E w \in Workers : StoreSequenceCount(w)
    \/ \E w \in Workers : StoreTotalLength(w)
    \/ \E w \in Workers : EndCollect(w)
    \/ \E w \in Workers : Except(w)

SpecGUI == InitGUI /\ [][NextGUI]_vars

(***************************************************************************)
(* Properties of the GUI (specification SpecGUI).                          *)
(***************************************************************************)
\* C3: whenever the GUI's analyzer is set, it reads current_file, so that no
\* query made after load_file(f2) is answered from results computed over an
\* earlier file f1.  Stated for the states in which load_file is not half done.
C3_AnalyzerReadsCurrentFile ==
    (mainpc = "idle" /\ analyzer # None) =>
        Some(readers[analyzer[1]].filename) = current_file

\* the worker is inside a pass: the file is open and the loop running, or the
\* results are being stored
InPass(w) == workers[w].pc \in {"pass", "store_total_length"}

\* C4: at most one pass is in flight at a time: no two worker threads are
\* inside a pass over the same reader (scanning its file to write its cache
\* fields) at once.
C4_OnePassInFlightPerReader ==
    \A v, w \in Workers :
        (v # w /\ InPass(v) /\ InPass(w)) => workers[v].self # workers[w].self

\* C14: the statistics on display belong to the file now loaded: the text
\* names current_file, and its count and average were computed from that file,
\* so no callback of an analysis started before a load_file puts the earlier
\* file's results back after load_file cleared them.
C14_ShownStatisticsAreOfCurrentFile ==
    shown # None =>
        /\ Some(shown[1].file) = current_file
        /\ shown[1].count_from = shown[1].file

====
